---- MODULE Spec2Model ----
(***************************************************************************)
(* Roster migration ("simple promotion") of the attendance backend:        *)
(* routes/teacherRoutes.js, router.post("/simple-promotion/:stream").      *)
(* The student buckets are the collections <stream>_sem<k>_students; the   *)
(* handler runs its graduation step and its promotion pairs inside         *)
(* session.withTransaction, so its writes go to a working copy (view) that *)
(* is committed to the store (db) or discarded as a whole.                 *)
(* Further parts, each with its own specification: the language group of   *)
(* a student record, the bucket names of the report routes, the teacher's  *)
(* attendance queue (routes/teacher.js), the attendance records written by *)
(* mark-attendance and update-attendance, and the absence messages.        *)
(***************************************************************************)
EXTENDS Integers, Sequences, FiniteSets, TLC

\* ---------------------------------------------------------------- bounds
MaxRuns == 2
MaxStudents == 2
MaxRetries == 1
MaxModels == 2

\* entries of one teacher (attendanceQueue and completedToday together), and
\* the milliseconds the clock may reach
MaxClasses == 2
MaxTicks == 2

\* ------------------------------------------------------------- constants
validStreamsWithUnmapped ==
  {"BCA", "BBA", "BCom", "BCom Section B", "BCom-BDA", "BCom A and F", "BSc"}

validStreams ==
  {"BCA", "BBA", "BCom", "BCom Section B", "BCom-BDA", "BCom A and F"}

\* stream parameters the requests are drawn from: a full-range stream, the
\* constrained stream and a value that is not recognized
StreamInputs == {"BCA", "BCom Section B", "BSc"}

\* variant: "BCom Section B" shares the prefix of "BCom"
STREAM_MAPPINGSSharedPrefix ==
  [ s \in {"BCA", "BBA", "BCom", "BCom Section B", "BCom-BDA", "BCom A and F"} |->
      CASE s = "BCA" -> "bca"
        [] s = "BBA" -> "bba"
        [] s = "BCom" -> "bcom"
        [] s = "BCom Section B" -> "bcom"
        [] s = "BCom-BDA" -> "bcom-bda"
        [] s = "BCom A and F" -> "bcom_a_and_f" ]

\* STREAM_MAPPINGS: the collection-name prefix of each recognized stream
STREAM_MAPPINGS ==
  [ s \in {"BCA", "BBA", "BCom", "BCom Section B", "BCom-BDA", "BCom A and F"} |->
      CASE s = "BCA" -> "bca"
        [] s = "BBA" -> "bba"
        [] s = "BCom" -> "bcom"
        [] s = "BCom Section B" -> "bcomsectionb"
        [] s = "BCom-BDA" -> "bcom-bda"
        [] s = "BCom A and F" -> "bcom_a_and_f" ]

\* variant: the name does not carry the stream's prefix
getCollectionNameNoPrefix(strm, semester, type) ==
  IF strm = "" \/ semester = 0 \/ type = "" THEN "Error"
  ELSE IF strm \notin DOMAIN STREAM_MAPPINGS THEN "Error"
  ELSE IF semester < 1 \/ semester > 8 THEN "Error"
  ELSE "sem" \o ToString(semester) \o "_" \o type

\* getCollectionName(stream, semester, type): the template string
\* `${streamCode}_sem${semester}_${type}`, or "Error" where the function
\* throws (a missing argument is "" or 0, an unknown stream, a semester
\* outside 1..8)
getCollectionName(strm, semester, type) ==
  IF strm = "" \/ semester = 0 \/ type = "" THEN "Error"
  ELSE IF strm \notin DOMAIN STREAM_MAPPINGS THEN "Error"
  ELSE IF semester < 1 \/ semester > 8 THEN "Error"
  ELSE STREAM_MAPPINGS[strm] \o "_sem" \o ToString(semester) \o "_" \o type

\* getStudentModel(stream, sem) resolves (getCollectionName does not throw)
ModelResolves(s) == s \in DOMAIN STREAM_MAPPINGS

\* the streams whose buckets the model stores
Streams == {"BCA", "BCom Section B"}

Sems == 1..6
StudentIDs == {"S1", "S2"}

\* isActive as stored: true, false, explicitly null, or the field absent
ActiveValues == {"true", "false", "null", "absent"}

\* ------------------------------------------------------------- helpers
semesterRange(s) ==
  IF s = "BCom Section B" THEN {5, 6} ELSE {1, 2, 3, 4, 5, 6}

\* variants of the pair list: lowest source semester first; first two swapped
promotionPairsAscending(s) ==
  IF s = "BCom Section B"
  THEN << [from |-> 5, to |-> 6] >>
  ELSE [i \in 1..5 |-> [from |-> i, to |-> i + 1]]

promotionPairsSwapped(s) ==
  IF s = "BCom Section B"
  THEN << [from |-> 5, to |-> 6] >>
  ELSE << [from |-> 4, to |-> 5], [from |-> 5, to |-> 6], [from |-> 3, to |-> 4],
          [from |-> 2, to |-> 3], [from |-> 1, to |-> 2] >>

\* variant: the constrained stream is given the full pair list
promotionPairsNoSectionB(s) ==
  [i \in 1..5 |-> [from |-> 6 - i, to |-> 7 - i]]

promotionPairs(s) ==
  IF s = "BCom Section B"
  THEN << [from |-> 5, to |-> 6] >>
  ELSE [i \in 1..5 |-> [from |-> 6 - i, to |-> 7 - i]]

\* variant: the query matches every record, whatever its isActive
getActiveStudentQueryAll(r) == r.isActive \in ActiveValues

\* getActiveStudentQuery: isActive true, or absent, or null
getActiveStudentQuery(r) ==
  \/ r.isActive = "true"
  \/ r.isActive = "absent"
  \/ r.isActive = "null"

\* a stored record that was never promoted: the schema defaults.  A record
\* written before the migration fields existed lacks isActive and lacks
\* originalSemester with it (0 stands for the missing value)
NewStudent(id, s, k, a) ==
  [ studentID           |-> id,
    stream              |-> s,
    semester            |-> k,
    isActive            |-> a,
    migrationGeneration |-> 0,
    originalSemester    |-> IF a = "absent" THEN 0 ELSE k,
    migrationBatch      |-> 0,
    migrationHistory    |-> << >> ]

\* variants of the record construction: prior history not carried over;
\* generation not incremented
promotedStudentsDropsHistory(student, fromSem, toSem, batch) ==
  [ studentID           |-> student.studentID,
    stream              |-> student.stream,
    semester            |-> toSem,
    isActive            |-> "true",
    migrationGeneration |-> student.migrationGeneration + 1,
    originalSemester    |-> IF student.originalSemester # 0
                            THEN student.originalSemester ELSE fromSem,
    migrationBatch      |-> batch,
    migrationHistory    |->
      << [ fromSemester   |-> fromSem,
           toSemester     |-> toSem,
           migratedDate   |-> batch,
           migrationBatch |-> batch,
           generation     |-> student.migrationGeneration + 1 ] >> ]

promotedStudentsKeepsGeneration(student, fromSem, toSem, batch) ==
  [ studentID           |-> student.studentID,
    stream              |-> student.stream,
    semester            |-> toSem,
    isActive            |-> "true",
    migrationGeneration |-> student.migrationGeneration,
    originalSemester    |-> IF student.originalSemester # 0
                            THEN student.originalSemester ELSE fromSem,
    migrationBatch      |-> batch,
    migrationHistory    |->
      Append(student.migrationHistory,
             [ fromSemester   |-> fromSem,
               toSemester     |-> toSem,
               migratedDate   |-> batch,
               migrationBatch |-> batch,
               generation     |-> student.migrationGeneration + 1 ]) ]

\* variant: originalSemester is set to the source semester of every hop
promotedStudentsResetsOriginal(student, fromSem, toSem, batch) ==
  [ studentID           |-> student.studentID,
    stream              |-> student.stream,
    semester            |-> toSem,
    isActive            |-> "true",
    migrationGeneration |-> student.migrationGeneration + 1,
    originalSemester    |-> fromSem,
    migrationBatch      |-> batch,
    migrationHistory    |->
      Append(student.migrationHistory,
             [ fromSemester   |-> fromSem,
               toSemester     |-> toSem,
               migratedDate   |-> batch,
               migrationBatch |-> batch,
               generation     |-> student.migrationGeneration + 1 ]) ]

\* variant: the record keeps the batch id of its previous migration
promotedStudentsKeepsBatch(student, fromSem, toSem, batch) ==
  [ studentID           |-> student.studentID,
    stream              |-> student.stream,
    semester            |-> toSem,
    isActive            |-> "true",
    migrationGeneration |-> student.migrationGeneration + 1,
    originalSemester    |-> IF student.originalSemester # 0
                            THEN student.originalSemester ELSE fromSem,
    migrationBatch      |-> student.migrationBatch,
    migrationHistory    |->
      Append(student.migrationHistory,
             [ fromSemester   |-> fromSem,
               toSemester     |-> toSem,
               migratedDate   |-> batch,
               migrationBatch |-> batch,
               generation     |-> student.migrationGeneration + 1 ]) ]

\* the record built for the target bucket (promotedStudents.map)
promotedStudents(student, fromSem, toSem, batch) ==
  [ studentID           |-> student.studentID,
    stream              |-> student.stream,
    semester            |-> toSem,
    isActive            |-> "true",
    migrationGeneration |-> student.migrationGeneration + 1,
    originalSemester    |-> IF student.originalSemester # 0
                            THEN student.originalSemester ELSE fromSem,
    migrationBatch      |-> batch,
    migrationHistory    |->
      Append(student.migrationHistory,
             [ fromSemester   |-> fromSem,
               toSemester     |-> toSem,
               migratedDate   |-> batch,
               migrationBatch |-> batch,
               generation     |-> student.migrationGeneration + 1 ]) ]

IdsOf(bucket) == { r.studentID : r \in bucket }

\* variant: only isActive = true is selected
studentsToPromoteOnlyTrue(bucket) == { r \in bucket : r.isActive = "true" }

\* SourceStudent.find(getActiveStudentQuery())
studentsToPromote(bucket) == { r \in bucket : getActiveStudentQuery(r) }

\* variant: the semester 6 delete is not issued
AfterGraduationNoDelete(v) == v

\* Semester6Students.deleteMany({}) on the working copy
AfterGraduation(v) == [v EXCEPT ![6] = {}]

\* variant: the source bucket is not emptied
AfterPromotionKeepsSource(v, fromSem, toSem, promoted) ==
  [v EXCEPT ![toSem] = v[toSem] \cup promoted]

\* TargetStudent.insertMany(promoted) then SourceStudent.deleteMany({})
AfterPromotion(v, fromSem, toSem, promoted) ==
  [v EXCEPT ![toSem] = v[toSem] \cup promoted, ![fromSem] = {}]

\* variant: the source bucket is emptied before the insert is issued
AtThrowDeleteFirst(v, fromSem, toSem, promoted, fail) ==
  IF fail = "insert" THEN [v EXCEPT ![fromSem] = {}] ELSE v

\* the working copy at the moment a pair throws: a failed insertMany has
\* written nothing and deleteMany was not reached; a failed deleteMany
\* comes after the insertMany that succeeded
AtThrow(v, fromSem, toSem, promoted, fail) ==
  IF fail = "delete" THEN [v EXCEPT ![toSem] = v[toSem] \cup promoted] ELSE v

\* the unique index on studentID: an insert of docs into bucket is refused
\* when one of the ids is already there
DuplicateKey(docs, bucket) == IdsOf(docs) \cap IdsOf(bucket) # {}

\* ---------------------------------------------------------------- state
VARIABLES
  db,               \* committed store: db[stream][sem] = set of student records
  pre,              \* the store as it was when the current/last request began
  pc,               \* position of the handler: "idle", "grad", "pair"
  stream,           \* req.params.stream of the current/last request
  clock,            \* requests so far; also promotionDate / Date.now()
  session,          \* "none", "open", "ended"
  view,             \* the transaction's working copy of the stream's buckets
  idx,              \* index of the next promotion pair
  attempts,         \* executions of the transaction callback so far
  gradFailed,       \* the graduation try block of this execution threw
  order,            \* source semesters processed by this execution, in order
  totalPromoted,
  totalGraduated,
  promotionDetails,
  response,         \* "none", "400", "200", "500"
  lastError         \* the operation whose error reached the handler, or "none"

\* state of the other parts of the backend
VARIABLES
  collections,      \* the collections models were made for: name, arguments
  collectionName,   \* what the last getCollectionName call returned
  store,            \* concurrent requests: committed collections, by name
  store0,           \* concurrent requests: the store before the first one
  req               \* concurrent requests: the state of each request

\* state of the other routes
VARIABLES
  languageDoc,      \* a student record's classification fields
  report,           \* the last lookup of the report routes, and its name
  teacherSaved,     \* the teacher's document exists
  attendanceQueue,  \* teacher.attendanceQueue as stored
  completedToday,   \* teacher.completedToday as stored
  now,              \* Date.now() of the latest request, in milliseconds
  queueResponse,    \* the last answer of the queue routes
  attendance,       \* the attendance collections of a subject, by name
  baseAttendance,   \* the BaseAttendance collection
  marking,          \* the mark-attendance requests
  updateStatus,     \* the last answer of update-attendance
  messageLog,       \* the message log of one (date, stream, semester)
  absentees,        \* the students the day's attendance reports absent
  sending           \* the send-absence-messages requests

\* the teacher's document and the queue routes
queueVars ==
  << teacherSaved, attendanceQueue, completedToday, now, queueResponse >>

\* the attendance records and the mark and update routes
attendanceVars == << attendance, baseAttendance, marking, updateStatus >>

\* the message log and the send route
messageVars == << messageLog, absentees, sending >>

\* the state of the other routes
routes == << languageDoc, report, queueVars, attendanceVars, messageVars >>

vars == << db, pre, pc, stream, clock, session, view, idx, attempts,
           gradFailed, order, totalPromoted, totalGraduated,
           promotionDetails, response, lastError, collections,
           collectionName, store, store0, req, routes >>

\* what the promotion handler leaves alone
elsewhere == << collections, collectionName, store, store0, req, routes >>

\* no request of the other routes has been made
QueueIdle ==
  /\ teacherSaved = FALSE
  /\ attendanceQueue = << >>
  /\ completedToday = << >>
  /\ now = 1
  /\ queueResponse = [ route |-> "none", status |-> 0, classId |-> "" ]

AttendanceIdle ==
  /\ attendance = << >>
  /\ baseAttendance = {}
  /\ marking = << >>
  /\ updateStatus = 0

MessagesIdle ==
  /\ messageLog = << >>
  /\ absentees = {}
  /\ sending = << >>

RoutesIdle ==
  /\ languageDoc = << >>
  /\ report = << >>
  /\ QueueIdle
  /\ AttendanceIdle
  /\ MessagesIdle

\* no model has been looked up
ModelsIdle == collections = {} /\ collectionName = ""

\* the two concurrent requests, and the student collections they work on
Runs == {1, 2}

BucketName(s, k) == getCollectionName(s, k, "students")

StoreNames == { BucketName(s, k) : s \in Streams, k \in Sems }

\* a request that has not arrived
NewReq ==
  [ pc |-> "new", stream |-> "", attempts |-> 0, idx |-> 1,
    view |-> [k \in Sems |-> {}], wset |-> {}, stale |-> {},
    aborted |-> FALSE, response |-> "none" ]

\* no concurrent request has been made
RunsIdle ==
  /\ store = << >>
  /\ store0 = << >>
  /\ req = << >>

\* the buckets of a stream in a store (none for a stream without collections)
BucketsOf(d, s) == IF s \in Streams THEN d[s] ELSE [k \in Sems |-> {}]

EmptyBuckets == [k \in Sems |-> {}]

\* The initial rosters.  All records of a roster belong to one stream; the
\* constrained stream is populated around its range only.  A record that is
\* neither active nor deactivated by value lacks the field in the odd
\* semesters and holds null in the even ones.
RosterSems(s) == IF s = "BCom Section B" THEN {4, 5, 6} ELSE Sems

RosterActive(k) ==
  {"true", "false", IF k % 2 = 1 THEN "absent" ELSE "null"}

Placements(s) ==
  UNION { { NewStudent(id, s, k, a) : id \in StudentIDs, a \in RosterActive(k) } :
          k \in RosterSems(s) }

SameBucket(r1, r2) == r1.stream = r2.stream /\ r1.semester = r2.semester

\* the sets of at most n records of stream s
RECURSIVE RostersUpTo(_, _)
RostersUpTo(s, n) ==
  IF n = 0 THEN { {} }
  ELSE LET smaller == RostersUpTo(s, n - 1)
       IN  smaller \cup { R \cup {p} : R \in smaller, p \in Placements(s) }

\* the unique index on studentID of every bucket
UniqueInBucket(R) ==
  \A r1, r2 \in R :
    (SameBucket(r1, r2) /\ r1.studentID = r2.studentID) => r1 = r2

\* studentIDs are interchangeable: of two rosters that differ by renaming
\* the ids only one is kept (the one whose "S1" sits lowest)
SlotOf(r) ==
  3 * r.semester +
    (CASE r.isActive = "true" -> 0 [] r.isActive = "false" -> 1 [] OTHER -> 2)

LowestSlot(R, id) ==
  LET slots == { SlotOf(r) : r \in { q \in R : q.studentID = id } }
  IN  IF slots = {} THEN 100
      ELSE CHOOSE m \in slots : \A x \in slots : m <= x

Canonical(R) == LowestSlot(R, "S1") <= LowestSlot(R, "S2")

Rosters ==
  UNION { { R \in RostersUpTo(s, MaxStudents) :
              UniqueInBucket(R) /\ Canonical(R) } : s \in Streams }

\* no promotion request has been made
HandlerIdle ==
  /\ pre = db
  /\ pc = "idle"
  /\ stream = "BCA"
  /\ clock = 0
  /\ session = "none"
  /\ view = EmptyBuckets
  /\ idx = 1
  /\ attempts = 0
  /\ gradFailed = FALSE
  /\ order = << >>
  /\ totalPromoted = 0
  /\ totalGraduated = 0
  /\ promotionDetails = << >>
  /\ response = "none"
  /\ lastError = "none"

Init ==
  /\ \E R \in Rosters :
       db = [s \in Streams |->
              [k \in Sems |-> { r \in R : r.stream = s /\ r.semester = k }]]
  /\ HandlerIdle
  /\ ModelsIdle
  /\ RunsIdle
  /\ RoutesIdle

\* ------------------------------------------------------------- actions

\* the handler up to the transaction: validation, then startSession and the
\* first execution of the callback begins
RejectStream(s) ==
  /\ pc = "idle"
  /\ clock < MaxRuns
  /\ s \notin validStreams
  /\ clock' = clock + 1
  /\ stream' = s
  /\ pre' = db
  /\ response' = "400"
  /\ session' = "none"
  /\ totalPromoted' = 0
  /\ totalGraduated' = 0
  /\ promotionDetails' = << >>
  /\ attempts' = 0
  /\ gradFailed' = FALSE
  /\ order' = << >>
  /\ view' = EmptyBuckets
  /\ idx' = 1
  /\ lastError' = "none"
  /\ UNCHANGED << db, pc >>
  /\ UNCHANGED elsewhere

StartPromotion(s) ==
  /\ pc = "idle"
  /\ clock < MaxRuns
  /\ s \in validStreams
  /\ clock' = clock + 1
  /\ stream' = s
  /\ pre' = db
  /\ response' = "none"
  /\ session' = "open"
  /\ totalPromoted' = 0
  /\ totalGraduated' = 0
  /\ promotionDetails' = << >>
  /\ attempts' = 1
  /\ gradFailed' = FALSE
  /\ order' = << >>
  /\ view' = BucketsOf(db, s)
  /\ idx' = 1
  /\ pc' = "grad"
  /\ lastError' = "none"
  /\ UNCHANGED db
  /\ UNCHANGED elsewhere

\* Step 1: graduation of the semester 6 bucket, in its own try/catch
Graduation(fail) ==
  /\ pc = "grad"
  /\ pc' = "pair"
  /\ idx' = 1
  /\ IF 6 \notin semesterRange(stream)
     THEN /\ fail = FALSE
          /\ UNCHANGED << view, totalGraduated, promotionDetails, gradFailed >>
     ELSE IF fail \/ ~ModelResolves(stream)
     THEN /\ gradFailed' = TRUE
          /\ UNCHANGED << view, totalGraduated, promotionDetails >>
     ELSE IF Cardinality(view[6]) > 0
     THEN /\ view' = AfterGraduation(view)
          /\ totalGraduated' = Cardinality(view[6])
          /\ promotionDetails' =
               Append(promotionDetails,
                      [ action |-> "graduation", semester |-> 6,
                        count |-> Cardinality(view[6]),
                        students |-> IdsOf(view[6]) ])
          /\ UNCHANGED gradFailed
     ELSE UNCHANGED << view, totalGraduated, promotionDetails, gradFailed >>
  /\ UNCHANGED << db, pre, stream, clock, session, attempts, order,
                  totalPromoted, response, lastError >>
  /\ UNCHANGED elsewhere

\* the store after withTransaction commits the working copy
Committed(d, s, v) == IF s \in Streams THEN [d EXCEPT ![s] = v] ELSE d

\* variant: the writes of the failed execution stay in the store
CallbackThrowsNoRollback(transient, err, v) ==
  IF transient /\ attempts <= MaxRetries
  THEN /\ attempts' = attempts + 1
       /\ view' = BucketsOf(db, stream)
       /\ pc' = "grad"
       /\ idx' = 1
       /\ gradFailed' = FALSE
       /\ order' = << >>
       /\ UNCHANGED << db, session, response, lastError, totalPromoted,
                       totalGraduated, promotionDetails >>
  ELSE /\ pc' = "idle"
       /\ session' = "ended"
       /\ response' = "500"
       /\ lastError' = err
       /\ db' = Committed(db, stream, v)
       /\ view' = v
       /\ totalPromoted' = 0
       /\ totalGraduated' = 0
       /\ promotionDetails' = << >>
       /\ attempts' = 0
       /\ gradFailed' = FALSE
       /\ order' = << >>
       /\ UNCHANGED idx

\* what withTransaction does when the callback throws: the transaction is
\* aborted; a transient error re-executes the callback, any other error is
\* rethrown to the handler, whose finally ends the session; no report is
\* built and the handler's counters are gone with it.  v is the working
\* copy the aborted transaction had reached
CallbackThrows(transient, err, v) ==
  IF transient /\ attempts <= MaxRetries
  THEN /\ attempts' = attempts + 1
       /\ view' = BucketsOf(db, stream)
       /\ pc' = "grad"
       /\ idx' = 1
       /\ gradFailed' = FALSE
       /\ order' = << >>
       /\ UNCHANGED << db, session, response, lastError, totalPromoted,
                       totalGraduated, promotionDetails >>
  ELSE /\ pc' = "idle"
       /\ session' = "ended"
       /\ response' = "500"
       /\ lastError' = err
       /\ totalPromoted' = 0
       /\ totalGraduated' = 0
       /\ promotionDetails' = << >>
       /\ attempts' = 0
       /\ gradFailed' = FALSE
       /\ order' = << >>
       /\ view' = v
       /\ UNCHANGED << db, idx >>

\* Step 2: one promotion pair (one iteration of the for loop)
PromotePair(fail, transient) ==
  /\ pc = "pair"
  /\ idx <= Len(promotionPairs(stream))
  /\ LET fromSem == promotionPairs(stream)[idx].from
         toSem == promotionPairs(stream)[idx].to
         students == studentsToPromote(view[fromSem])
         promoted ==
           { promotedStudents(r, fromSem, toSem, clock) : r \in students }
     IN  IF ~ModelResolves(stream)
         THEN /\ fail = "none" /\ transient = FALSE
              /\ CallbackThrows(FALSE, "model", view)
         ELSE IF fail = "read"
         THEN CallbackThrows(transient, "read", view)
         ELSE IF students = {}
         THEN /\ fail = "none" /\ transient = FALSE
              /\ idx' = idx + 1
              /\ order' = Append(order, fromSem)
              /\ UNCHANGED << db, pc, session, view, attempts, gradFailed,
                              totalPromoted, totalGraduated,
                              promotionDetails, response, lastError >>
         ELSE IF DuplicateKey(promoted, view[toSem])
         THEN /\ fail = "none" /\ transient = FALSE
              /\ CallbackThrows(FALSE, "duplicate", view)
         ELSE IF fail \in {"insert", "delete"}
         THEN CallbackThrows(transient, fail,
                             AtThrow(view, fromSem, toSem, promoted, fail))
         ELSE /\ transient = FALSE
              /\ view' = AfterPromotion(view, fromSem, toSem, promoted)
              /\ totalPromoted' = totalPromoted + Cardinality(students)
              /\ promotionDetails' =
                   Append(promotionDetails,
                          [ action |-> "promotion", fromSemester |-> fromSem,
                            toSemester |-> toSem,
                            count |-> Cardinality(students),
                            students |-> IdsOf(students) ])
              /\ idx' = idx + 1
              /\ order' = Append(order, fromSem)
              /\ UNCHANGED << db, pc, session, attempts, gradFailed, response,
                              lastError, totalGraduated >>
  /\ UNCHANGED << pre, stream, clock >>
  /\ UNCHANGED elsewhere

\* the callback returned: withTransaction commits, the session ends and the
\* report is sent
Commit ==
  /\ pc = "pair"
  /\ idx > Len(promotionPairs(stream))
  /\ db' = Committed(db, stream, view)
  /\ pc' = "idle"
  /\ session' = "ended"
  /\ response' = "200"
  /\ UNCHANGED << pre, stream, clock, view, idx, attempts, gradFailed, order,
                  totalPromoted, totalGraduated, promotionDetails, lastError >>
  /\ UNCHANGED elsewhere

Next ==
  \/ \E s \in StreamInputs : RejectStream(s)
  \/ \E s \in StreamInputs : StartPromotion(s)
  \/ \E fail \in BOOLEAN : Graduation(fail)
  \/ \E fail \in {"none", "read", "insert", "delete"}, transient \in BOOLEAN :
       PromotePair(fail, transient)
  \/ Commit

Spec == Init /\ [][Next]_vars

\* the same handler, as the specification of the claims about single
\* records and single pairs
SpecRecords == Init /\ [][Next]_vars

TypeOK ==
  /\ pc \in {"idle", "grad", "pair"}
  /\ stream \in StreamInputs
  /\ clock \in 0..MaxRuns
  /\ session \in {"none", "open", "ended"}
  /\ response \in {"none", "400", "200", "500"}
  /\ attempts \in 0..(MaxRetries + 1)
  /\ lastError \in {"none", "read", "insert", "delete", "duplicate", "model"}
  /\ idx \in 1..6
\* ------------------------------------------------- model lookup (names)
\* the arguments model lookups are made with: every recognized stream with
\* every semester 1..8, and three that make getCollectionName throw (a
\* stream that is not recognized, the missing semester 0, semester 9)
LookupArgs ==
  (validStreams \X (1..8)) \cup { <<"BSc", 1>>, <<"BCA", 0>>, <<"BCA", 9>> }

\* lookups are independent of each other, so only one order of first
\* lookups is followed: by stream, then semester, then type
Rank(strm, sem, type) ==
  (CASE strm = "BCA" -> 1 [] strm = "BBA" -> 2 [] strm = "BCom" -> 3
     [] strm = "BCom Section B" -> 4 [] strm = "BCom-BDA" -> 5
     [] OTHER -> 6) * 100
  + sem * 10 + (IF type = "students" THEN 1 ELSE 2)

\* the body shared by getStudentModel and getSubjectModel: the name is
\* computed and the model of the collection of that name is made for the
\* arguments
GetModel(strm, sem, type) ==
  LET modelName == getCollectionName(strm, sem, type)
      entry == [ name |-> modelName, stream |-> strm, semester |-> sem,
                 type |-> type ]
  IN  /\ \/ strm \notin validStreams
         \/ sem \notin 1..8
         \/ /\ Cardinality(collections) < MaxModels
            /\ \A e \in collections :
                 Rank(e.stream, e.semester, e.type) < Rank(strm, sem, type)
      /\ collectionName' = modelName
      /\ collections' =
           IF modelName = "Error" THEN collections
           ELSE collections \cup {entry}
      /\ UNCHANGED << db, pre, pc, stream, clock, session, view, idx,
                      attempts, gradFailed, order, totalPromoted,
                      totalGraduated, promotionDetails, response, lastError,
                      store, store0, req, routes >>

getStudentModel(strm, sem) == GetModel(strm, sem, "students")

getSubjectModel(strm, sem) == GetModel(strm, sem, "subjects")

InitNames ==
  /\ db = [s \in Streams |-> EmptyBuckets]
  /\ HandlerIdle
  /\ ModelsIdle
  /\ RunsIdle
  /\ RoutesIdle

NextNames ==
  \/ \E a \in LookupArgs : getStudentModel(a[1], a[2])
  \/ \E a \in LookupArgs : getSubjectModel(a[1], a[2])

SpecNames == InitNames /\ [][NextNames]_vars

\* ------------------------------------------------ concurrent requests
\* Several simple-promotion requests in flight at once.  Each runs its
\* callback in a transaction of its own session: it reads the collections
\* as they were committed when its transaction began plus its own writes
\* (view), its writes are not in the store before it commits, and a write
\* to a document that another open transaction has written, or that was
\* committed after this transaction began, fails with a transient write
\* conflict that aborts the transaction.

\* the student buckets of stream s as a transaction reads them from st
ReadBuckets(st, s) == [k \in Sems |-> st[BucketName(s, k)]]

\* the documents a write touches: collection name and studentID
KeysOf(s, k, docs) == { << BucketName(s, k), d.studentID >> : d \in docs }

\* the documents written by the open transactions of the other requests
Held(r) == UNION { req[o].wset : o \in Runs \ {r} }

\* variant: no write conflict is ever detected
WriteConflictNever(r, keys) == FALSE

\* a write of request r to keys meets a concurrent write
WriteConflict(r, keys) == keys \cap (req[r].stale \cup Held(r)) # {}

\* the rosters of the concurrent requests: both streams, around semester 6
ConcSems(s) == IF s = "BCom Section B" THEN {5, 6} ELSE {4, 5, 6}

ConcPlacements ==
  UNION { { NewStudent(id, s, k, a) :
              id \in StudentIDs, k \in ConcSems(s), a \in {"true", "false"} } :
          s \in Streams }

RECURSIVE SetsUpTo(_, _)
SetsUpTo(P, n) ==
  IF n = 0 THEN { {} }
  ELSE LET smaller == SetsUpTo(P, n - 1)
       IN  smaller \cup { R \cup {p} : R \in smaller, p \in P }

ConcRosters ==
  { R \in SetsUpTo(ConcPlacements, MaxStudents) :
      UniqueInBucket(R) /\ Canonical(R) }

InitConc ==
  /\ db = [s \in Streams |-> EmptyBuckets]
  /\ HandlerIdle
  /\ ModelsIdle
  /\ \E R \in ConcRosters :
       store = [n \in StoreNames |->
                  { d \in R : BucketName(d.stream, d.semester) = n }]
  /\ store0 = store
  /\ req = [r \in Runs |-> NewReq]
  /\ RoutesIdle

\* withTransaction re-executes the callback: a new transaction, reading
\* the store as committed by then
Retried(q) ==
  [q EXCEPT !.attempts = q.attempts + 1, !.pc = "grad", !.idx = 1,
            !.view = ReadBuckets(store, q.stream), !.wset = {},
            !.stale = {}, !.aborted = FALSE]

\* the error reaches the handler: the request answers 500
Failed(q) ==
  [q EXCEPT !.pc = "done", !.response = "500", !.idx = 1,
            !.view = [k \in Sems |-> {}], !.wset = {}, !.stale = {},
            !.aborted = FALSE]

\* the callback throws: the transaction's writes are dropped
Thrown(q, transient) ==
  IF transient /\ q.attempts <= MaxRetries THEN Retried(q) ELSE Failed(q)

\* request r never touches the handler state of the sequential model
ConcFrame ==
  UNCHANGED << db, pre, pc, stream, clock, session, view, idx, attempts,
               gradFailed, order, totalPromoted, totalGraduated,
               promotionDetails, response, lastError, collections,
               collectionName, store0, routes >>

\* the request arrives with a recognized stream; the callback begins and
\* its first read fixes what the transaction sees
BeginRun(r, s) ==
  /\ req[r].pc = "new"
  /\ s \in validStreams
  /\ req' = [req EXCEPT ![r] =
               [NewReq EXCEPT !.pc = "grad", !.stream = s, !.attempts = 1,
                              !.view = ReadBuckets(store, s)]]
  /\ UNCHANGED store
  /\ ConcFrame

\* Step 1 of request r; a write conflict of deleteMany is caught by the
\* step's own catch, and leaves the transaction aborted in the store
RunGraduation(r) ==
  LET q == req[r]
      keys == KeysOf(q.stream, 6, q.view[6])
  IN  /\ q.pc = "grad"
      /\ req' = [req EXCEPT ![r] =
                   IF 6 \notin semesterRange(q.stream) \/ q.view[6] = {}
                   THEN [q EXCEPT !.pc = "pair"]
                   ELSE IF WriteConflict(r, keys)
                   THEN [q EXCEPT !.pc = "pair", !.aborted = TRUE,
                                  !.wset = {}]
                   ELSE [q EXCEPT !.pc = "pair",
                                  !.view = AfterGraduation(q.view),
                                  !.wset = q.wset \cup keys]]
      /\ UNCHANGED store
      /\ ConcFrame

\* Step 2 of request r, up to insertMany: the read of the source bucket
\* (which throws in an aborted transaction) and the insert
RunInsert(r) ==
  LET q == req[r]
      fromSem == promotionPairs(q.stream)[q.idx].from
      toSem == promotionPairs(q.stream)[q.idx].to
      students == studentsToPromote(q.view[fromSem])
      promoted == { promotedStudents(d, fromSem, toSem, r) : d \in students }
      keys == KeysOf(q.stream, toSem, promoted)
  IN  /\ q.pc = "pair"
      /\ q.idx <= Len(promotionPairs(q.stream))
      /\ req' = [req EXCEPT ![r] =
                   IF q.aborted THEN Thrown(q, TRUE)
                   ELSE IF students = {} THEN [q EXCEPT !.idx = q.idx + 1]
                   ELSE IF DuplicateKey(promoted, q.view[toSem])
                   THEN Thrown(q, FALSE)
                   ELSE IF WriteConflict(r, keys) THEN Thrown(q, TRUE)
                   ELSE [q EXCEPT !.pc = "del",
                                  !.view = [q.view EXCEPT ![toSem] =
                                              q.view[toSem] \cup promoted],
                                  !.wset = q.wset \cup keys]]
      /\ UNCHANGED store
      /\ ConcFrame

\* Step 2 of request r, the deleteMany({}) of the source bucket
RunDelete(r) ==
  LET q == req[r]
      fromSem == promotionPairs(q.stream)[q.idx].from
      keys == KeysOf(q.stream, fromSem, q.view[fromSem])
  IN  /\ q.pc = "del"
      /\ req' = [req EXCEPT ![r] =
                   IF WriteConflict(r, keys) THEN Thrown(q, TRUE)
                   ELSE [q EXCEPT !.pc = "pair", !.idx = q.idx + 1,
                                  !.view = [q.view EXCEPT ![fromSem] = {}],
                                  !.wset = q.wset \cup keys]]
      /\ UNCHANGED store
      /\ ConcFrame

\* the store after the transaction of q commits: the documents it wrote
\* are as in its view, every other document as committed
StoreAfterCommit(st, q) ==
  [n \in StoreNames |->
     { d \in st[n] : << n, d.studentID >> \notin q.wset }
       \cup UNION { { d \in q.view[k] : << n, d.studentID >> \in q.wset } :
                    k \in { j \in Sems : BucketName(q.stream, j) = n } }]

\* the callback of request r returned: the transaction commits and the
\* request answers 200
RunCommit(r) ==
  LET q == req[r]
  IN  /\ q.pc = "pair"
      /\ q.idx > Len(promotionPairs(q.stream))
      /\ ~q.aborted
      /\ store' = StoreAfterCommit(store, q)
      /\ req' = [o \in Runs |->
                   IF o = r
                   THEN [q EXCEPT !.pc = "done", !.response = "200",
                                  !.idx = 1, !.view = [k \in Sems |-> {}],
                                  !.wset = {}, !.stale = {}]
                   ELSE IF req[o].pc \in {"grad", "pair", "del"}
                   THEN [req[o] EXCEPT !.stale = req[o].stale \cup q.wset]
                   ELSE req[o]]
      /\ ConcFrame

NextConc ==
  \/ \E r \in Runs, s \in Streams : BeginRun(r, s)
  \/ \E r \in Runs : RunGraduation(r)
  \/ \E r \in Runs : RunInsert(r)
  \/ \E r \in Runs : RunDelete(r)
  \/ \E r \in Runs : RunCommit(r)

SpecConc == InitConc /\ [][NextConc]_vars

\* what one request alone makes of the buckets b of stream s: graduation,
\* then the pairs in order; ok is FALSE when an insert is refused
RECURSIVE PairsFrom(_, _, _, _)
PairsFrom(b, s, batch, i) ==
  IF i > Len(promotionPairs(s)) THEN [ok |-> TRUE, b |-> b]
  ELSE LET fromSem == promotionPairs(s)[i].from
           toSem == promotionPairs(s)[i].to
           students == studentsToPromote(b[fromSem])
           promoted ==
             { promotedStudents(d, fromSem, toSem, batch) : d \in students }
       IN  IF students = {} THEN PairsFrom(b, s, batch, i + 1)
           ELSE IF DuplicateKey(promoted, b[toSem])
           THEN [ok |-> FALSE, b |-> b]
           ELSE PairsFrom(AfterPromotion(b, fromSem, toSem, promoted),
                          s, batch, i + 1)

RunAlone(b, s, batch) ==
  PairsFrom(IF 6 \in semesterRange(s) THEN AfterGraduation(b) ELSE b,
            s, batch, 1)

\* the store after request r ran alone on store st
StoreAfterRun(st, r) ==
  LET s == req[r].stream
      res == RunAlone(ReadBuckets(st, s), s, r)
  IN  [n \in StoreNames |->
         IF \E k \in Sems : BucketName(s, k) = n
         THEN res.b[CHOOSE k \in Sems : BucketName(s, k) = n]
         ELSE st[n]]

RunSucceedsAlone(st, r) ==
  RunAlone(ReadBuckets(st, req[r].stream), req[r].stream, r).ok

\* the stores that the requests of Q, run one after the other in some
\* order and each answering 200, make of st
RECURSIVE SerialFrom(_, _)
SerialFrom(st, Q) ==
  IF Q = {} THEN {st}
  ELSE UNION { IF RunSucceedsAlone(st, r)
               THEN SerialFrom(StoreAfterRun(st, r), Q \ {r})
               ELSE {} : r \in Q }

\* ------------------------------------------- language groups of students

\* studentSchema.languageSubject: the offered electives; "" is null
LanguageSubjects == {"KANNADA", "HINDI", "SANSKRIT", ""}

\* the uppercase setter of a String path, on the stream names
toUpperCase ==
  [ s \in validStreams |->
      CASE s = "BCA" -> "BCA"
        [] s = "BBA" -> "BBA"
        [] s = "BCom" -> "BCOM"
        [] s = "BCom Section B" -> "BCOM SECTION B"
        [] s = "BCom-BDA" -> "BCOM-BDA"
        [] s = "BCom A and F" -> "BCOM A AND F" ]

\* studentSchema.languageGroup: the default of the path, computed from the
\* record's stream, semester and languageSubject
languageGroup(strm, semester, languageSubject) ==
  IF languageSubject # ""
  THEN toUpperCase[strm] \o "_SEM" \o ToString(semester) \o "_"
         \o languageSubject
  ELSE ""

\* a student record saved without a languageGroup: the default fills it in
NewLanguageDoc(strm, semester, languageSubject) ==
  [ stream          |-> strm,
    semester        |-> semester,
    languageSubject |-> languageSubject,
    languageGroup   |-> languageGroup(strm, semester, languageSubject) ]

\* the classification fields of the record built for the target bucket
\* (promotedStudents.map): the semester is the target's, the language
\* fields are the source record's
promotedStudentsLanguage(student, toSem) ==
  [ stream          |-> student.stream,
    semester        |-> toSem,
    languageSubject |-> student.languageSubject,
    languageGroup   |-> student.languageGroup ]

\* what the language-group steps leave alone
LanguageFrame ==
  UNCHANGED << db, pre, pc, stream, clock, session, view, idx, attempts,
               gradFailed, order, totalPromoted, totalGraduated,
               promotionDetails, response, lastError, collections,
               collectionName, store, store0, req, report, queueVars,
               attendanceVars, messageVars >>

InitLanguage ==
  /\ db = [s \in Streams |-> EmptyBuckets]
  /\ HandlerIdle
  /\ ModelsIdle
  /\ RunsIdle
  /\ \E s \in validStreams, k \in Sems, l \in LanguageSubjects :
       languageDoc = NewLanguageDoc(s, k, l)
  /\ report = << >>
  /\ QueueIdle
  /\ AttendanceIdle
  /\ MessagesIdle

\* a promotion of the record's stream reaches the pair that starts at the
\* record's semester: the record of the target bucket replaces it
PromoteLanguage ==
  /\ \E i \in DOMAIN promotionPairs(languageDoc.stream) :
       LET pair == promotionPairs(languageDoc.stream)[i]
       IN  /\ pair.from = languageDoc.semester
           /\ languageDoc' = promotedStudentsLanguage(languageDoc, pair.to)
  /\ LanguageFrame

NextLanguage == PromoteLanguage

SpecLanguage == InitLanguage /\ [][NextLanguage]_vars

\* ----------------------------------------- bucket names of the reports

\* the types a bucket name is asked for ("" by the attendance-name helper
\* of the report routes)
BucketTypes == {"students", "subjects", ""}

\* streamMappings of the report routes
streamMappings ==
  [ s \in validStreams |->
      CASE s = "BCA" -> "bca"
        [] s = "BBA" -> "bba"
        [] s = "BCom" -> "bcom"
        [] s = "BCom Section B" -> "bcomsectionb"
        [] s = "BCom-BDA" -> "bcom_bda"
        [] s = "BCom A and F" -> "bcom_a_and_f" ]

\* stream.toLowerCase().replace(/[\s&-]/g, "_") on the unmapped inputs
toLowerCaseReplaced(strm) ==
  CASE strm = "BSc" -> "bsc"
    [] OTHER -> strm

\* getCollectionName of the report routes: no argument is rejected
getCollectionNameReport(strm, semester, type) ==
  LET streamCode == IF strm \in DOMAIN streamMappings
                    THEN streamMappings[strm]
                    ELSE toLowerCaseReplaced(strm)
  IN  streamCode \o "_sem" \o ToString(semester) \o "_" \o type

\* no report has been asked for
NoReport == [ stream |-> "", semester |-> 0, type |-> "", name |-> "" ]

\* what a report lookup leaves alone
ReportFrame ==
  UNCHANGED << db, pre, pc, stream, clock, session, view, idx, attempts,
               gradFailed, order, totalPromoted, totalGraduated,
               promotionDetails, response, lastError, collections,
               store, store0, req, languageDoc, queueVars,
               attendanceVars, messageVars >>

InitReports ==
  /\ db = [s \in Streams |-> EmptyBuckets]
  /\ HandlerIdle
  /\ ModelsIdle
  /\ RunsIdle
  /\ languageDoc = << >>
  /\ report = NoReport
  /\ QueueIdle
  /\ AttendanceIdle
  /\ MessagesIdle

\* a report resolves the bucket of (stream, semester, type); collectionName
\* is the name the attendance and promotion routes resolve for the same
\* arguments
ReportLookup(strm, sem, type) ==
  /\ report' = [ stream |-> strm, semester |-> sem, type |-> type,
                 name |-> getCollectionNameReport(strm, sem, type) ]
  /\ collectionName' = getCollectionName(strm, sem, type)
  /\ ReportFrame

NextReports ==
  \E a \in LookupArgs, type \in BucketTypes : ReportLookup(a[1], a[2], type)

SpecReports == InitReports /\ [][NextReports]_vars

\* ------------------------------------------------- the teacher's queue
\* routes/teacher.js.  DELETE /queue/clear-completed is registered after
\* DELETE /queue/:classId and is therefore served by the latter, with
\* classId "clear-completed": completedToday is never emptied.

\* ClassSchema.semester: the enumeration of the path
SemesterEnum == {"1", "2", "3", "4", "5", "6"}

\* the request bodies: a class of a stream of the whole range and classes
\* of the constrained stream outside and inside its range; a subject with
\* and without a trailing blank, and a missing subject
StreamSemesterArgs ==
  { <<"BCA", "1">>, <<"BCom Section B", "1">>, <<"BCom Section B", "5">> }
SubjectArgs == {"Maths", "Maths ", ""}
ClassArgs ==
  { [ stream |-> p[1], semester |-> p[2], subject |-> u ] :
      p \in StreamSemesterArgs, u \in SubjectArgs }

\* the classId parameters: the ids a clock value gives, and one that no
\* entry has
ClassIdArgs == { ToString(t) : t \in 1..MaxTicks } \cup {"clear-completed"}

\* String.prototype.trim on the request values
trim(str) ==
  CASE str = "Maths " -> "Maths"
    [] OTHER -> str

\* addToQueue: the duplicate test compares the values as they were sent
isDuplicate(queue, classData) ==
  \E i \in DOMAIN queue :
    /\ queue[i].stream = classData.stream
    /\ queue[i].semester = classData.semester
    /\ queue[i].subject = classData.subject

\* addToQueue: the entry that is pushed; its id is the clock reading
newClass(classData, t) ==
  [ id       |-> ToString(t),
    stream   |-> trim(classData.stream),
    semester |-> trim(classData.semester),
    subject  |-> trim(classData.subject) ]

\* TeacherSchema.methods.addToQueue
addToQueue(queue, classData, t) ==
  IF isDuplicate(queue, classData)
  THEN [ thrown |-> TRUE, queue |-> queue ]
  ELSE [ thrown |-> FALSE, queue |-> Append(queue, newClass(classData, t)) ]

\* the position findIndex returns: the first entry with the id, 0 for -1
findIndex(queue, classId) ==
  LET found == { i \in DOMAIN queue : queue[i].id = classId }
  IN  IF found = {} THEN 0
      ELSE CHOOSE i \in found : \A j \in found : i <= j

\* attendanceQueue.splice(classIndex, 1)
splice(queue, classIndex) ==
  [ i \in 1..(Len(queue) - 1) |->
      IF i < classIndex THEN queue[i] ELSE queue[i + 1] ]

\* variant: the entry is removed and not kept
completeClassDropsEntry(queue, completed, classId) ==
  LET classIndex == findIndex(queue, classId)
  IN  IF classIndex = 0
      THEN [ thrown |-> TRUE, queue |-> queue, completed |-> completed ]
      ELSE [ thrown |-> FALSE, queue |-> splice(queue, classIndex),
             completed |-> completed ]

\* TeacherSchema.methods.completeClass (completedTime and completedDate of
\* the copy are wall-clock texts and are left out)
completeClass(queue, completed, classId) ==
  LET classIndex == findIndex(queue, classId)
  IN  IF classIndex = 0
      THEN [ thrown |-> TRUE, queue |-> queue, completed |-> completed ]
      ELSE [ thrown |-> FALSE, queue |-> splice(queue, classIndex),
             completed |-> Append(completed, queue[classIndex]) ]

\* variant: an id that matches nothing removes the first entry
removeClassFirstWhenMissing(queue, classId) ==
  LET filtered == SelectSeq(queue, LAMBDA c : c.id # classId)
  IN  IF Len(filtered) = Len(queue) /\ queue # << >>
      THEN [ thrown |-> FALSE, queue |-> Tail(queue) ]
      ELSE [ thrown |-> Len(filtered) = Len(queue), queue |-> filtered ]

\* TeacherSchema.methods.removeClass
removeClass(queue, classId) ==
  LET filtered == SelectSeq(queue, LAMBDA c : c.id # classId)
  IN  [ thrown |-> Len(filtered) = Len(queue), queue |-> filtered ]

\* ClassSchema validation, run by save() on every entry
ValidClass(c) ==
  /\ c.id # ""
  /\ c.stream \in validStreams
  /\ c.semester \in SemesterEnum
  /\ c.subject # ""

ValidQueue(queue) == \A i \in DOMAIN queue : ValidClass(queue[i])

\* an answer of the queue routes
Answer(route, status, classId) ==
  [ route |-> route, status |-> status, classId |-> classId ]

\* what the queue routes leave alone
QueueFrame ==
  UNCHANGED << db, pre, pc, stream, clock, session, view, idx, attempts,
               gradFailed, order, totalPromoted, totalGraduated,
               promotionDetails, response, lastError, collections,
               collectionName, store, store0, req, languageDoc, report,
               attendanceVars, messageVars >>

InitQueue ==
  /\ db = [s \in Streams |-> EmptyBuckets]
  /\ HandlerIdle
  /\ ModelsIdle
  /\ RunsIdle
  /\ languageDoc = << >>
  /\ report = << >>
  /\ QueueIdle
  /\ AttendanceIdle
  /\ MessagesIdle

Room(n) == Len(attendanceQueue) + Len(completedToday) + n <= MaxClasses

\* POST /queue/add, served at clock reading t
QueueAdd(classData, t) ==
  LET missing == \/ classData.stream = ""
                 \/ classData.semester = ""
                 \/ classData.subject = ""
      outOfRange == /\ classData.stream = "BCom Section B"
                    /\ classData.semester \notin {"5", "6"}
      added == addToQueue(attendanceQueue, classData, t)
  IN  /\ t >= now
      /\ now' = t
      /\ IF missing \/ outOfRange
         THEN /\ queueResponse' = Answer("add", 400, "")
              /\ UNCHANGED << teacherSaved, attendanceQueue, completedToday >>
         ELSE /\ teacherSaved' = TRUE
              /\ UNCHANGED completedToday
              /\ IF added.thrown
                 THEN /\ queueResponse' = Answer("add", 409, "")
                      /\ UNCHANGED attendanceQueue
                 ELSE /\ Room(1)
                      /\ IF ValidQueue(added.queue)
                         THEN /\ attendanceQueue' = added.queue
                              /\ queueResponse' = Answer("add", 201, "")
                         ELSE /\ UNCHANGED attendanceQueue
                              /\ queueResponse' = Answer("add", 500, "")
      /\ QueueFrame

\* the loop of POST /queue/bulk-add: every class goes through addToQueue,
\* a rejected one is reported and skipped
RECURSIVE bulkLoop(_, _, _)
bulkLoop(queue, classes, times) ==
  IF classes = << >> THEN queue
  ELSE bulkLoop(addToQueue(queue, Head(classes), Head(times)).queue,
                Tail(classes), Tail(times))

\* the request bodies of bulk-add: no class, one class, two classes
ClassLists ==
  {<< >>} \cup { <<c>> : c \in ClassArgs }
          \cup { <<c, d>> : c \in ClassArgs, d \in ClassArgs }

\* POST /queue/bulk-add, served from clock reading t on; the clock moves on
\* by adv milliseconds before the second class
QueueBulkAdd(classes, t, adv) ==
  LET times == [ i \in DOMAIN classes |-> IF i = 1 THEN t ELSE t + adv ]
      queue == bulkLoop(attendanceQueue, classes, times)
  IN  /\ t >= now
      /\ t + adv <= MaxTicks
      /\ UNCHANGED completedToday
      /\ IF classes = << >>
         THEN /\ now' = t
              /\ queueResponse' = Answer("bulk-add", 400, "")
              /\ UNCHANGED << teacherSaved, attendanceQueue >>
         ELSE /\ now' = times[Len(classes)]
              /\ teacherSaved' = TRUE
              /\ Room(Len(queue) - Len(attendanceQueue))
              /\ IF ValidQueue(queue)
                 THEN /\ attendanceQueue' = queue
                      /\ queueResponse' = Answer("bulk-add", 201, "")
                 ELSE /\ UNCHANGED attendanceQueue
                      /\ queueResponse' = Answer("bulk-add", 500, "")
      /\ QueueFrame

\* POST /queue/complete/:classId
QueueComplete(classId) ==
  LET done == completeClass(attendanceQueue, completedToday, classId)
  IN  /\ IF ~teacherSaved \/ done.thrown
         THEN /\ queueResponse' = Answer("complete", 404, classId)
              /\ UNCHANGED << attendanceQueue, completedToday >>
         ELSE /\ attendanceQueue' = done.queue
              /\ completedToday' = done.completed
              /\ queueResponse' = Answer("complete", 200, classId)
      /\ UNCHANGED << teacherSaved, now >>
      /\ QueueFrame

\* DELETE /queue/:classId
QueueRemove(classId) ==
  LET removed == removeClass(attendanceQueue, classId)
  IN  /\ IF ~teacherSaved \/ removed.thrown
         THEN /\ queueResponse' = Answer("remove", 404, classId)
              /\ UNCHANGED attendanceQueue
         ELSE /\ attendanceQueue' = removed.queue
              /\ queueResponse' = Answer("remove", 200, classId)
      /\ UNCHANGED << teacherSaved, completedToday, now >>
      /\ QueueFrame

NextQueue ==
  \/ \E c \in ClassArgs, t \in 1..MaxTicks : QueueAdd(c, t)
  \/ \E cs \in ClassLists, t \in 1..MaxTicks, adv \in {0, 1} :
       QueueBulkAdd(cs, t, adv)
  \/ \E classId \in ClassIdArgs : QueueComplete(classId)
  \/ \E classId \in ClassIdArgs : QueueRemove(classId)

SpecQueue == InitQueue /\ [][NextQueue]_vars

\* -------------------------------------------------- attendance records
\* POST /attendance/:stream/sem:sem/:subject (mark-attendance) and
\* POST /update-attendance/:stream/sem:sem/:subject, for the subjects of
\* BCA semester 1.  A mark request is served in two steps, its reads and
\* its writes; other requests may be served in between.

\* the dates of the requests, YYYY-MM-DD
AttendanceDates == {"2024-01-15", "2024-01-16"}

\* new Date(date) and new Date(dateStr + 'T00:00:00.000Z'): midnight UTC of
\* the day, in days since the epoch
newDate(date) ==
  CASE date = "2024-01-15" -> 19737
    [] date = "2024-01-16" -> 19738

\* the :subject parameters, and the subjects collection of the semester
SubjectParams == {"MATHS", "Maths", "Physics"}
SubjectNames == {"MATHS"}

\* subject.toUpperCase()
subjectToUpperCase(subject) ==
  CASE subject = "Maths" -> "MATHS"
    [] subject = "Physics" -> "PHYSICS"
    [] OTHER -> subject

\* cleanSubject of getAttendanceModel: lower case, blanks to underscores
cleanSubject(subject) ==
  CASE subject \in {"MATHS", "Maths"} -> "maths"
    [] subject = "Physics" -> "physics"

\* getAttendanceModel: the name of the subject's attendance collection
getAttendanceModel(strm, sem, subject) ==
  STREAM_MAPPINGS[strm] \o "_sem" \o ToString(sem) \o "_"
    \o cleanSubject(subject) \o "_attendance"

AttendanceNames == { getAttendanceModel("BCA", 1, s) : s \in SubjectParams }

\* the active students of the semester, and the studentsPresent of the
\* requests (one names a student who is not enrolled)
relevantStudentIDs == {"S1", "S2"}
PresentArgs == { {}, {"S1"}, {"S9"} }

\* a mark request that has not arrived
NewMark ==
  [ pc |-> "new", date |-> "", subject |-> "", studentsPresent |-> {},
    forceOverwrite |-> FALSE, status |-> 0, existed |-> FALSE ]

\* the records a filter { date, subject } matches
Matching(bucket, date, subject) ==
  { a \in bucket : a.date = date /\ a.subject = subject }

\* findOneAndUpdate({ date, subject }, { $set }, { upsert: true }): the
\* matching record is updated, or a record is made from filter and $set;
\* method "" stands for a $set without updateMethod
findOneAndUpdate(bucket, date, subject, present, method) ==
  LET found == Matching(bucket, date, subject)
  IN  IF found = {}
      THEN bucket \cup { [ date |-> date, subject |-> subject,
                           studentsPresent |-> present,
                           updateMethod |-> method ] }
      ELSE LET old == CHOOSE a \in found : TRUE
           IN  (bucket \ {old}) \cup
                 { [ old EXCEPT !.studentsPresent = present,
                                !.updateMethod =
                                  IF method = "" THEN @ ELSE method ] }

\* what the attendance routes leave alone
AttendanceFrame ==
  UNCHANGED << db, pre, pc, stream, clock, session, view, idx, attempts,
               gradFailed, order, totalPromoted, totalGraduated,
               promotionDetails, response, lastError, collections,
               collectionName, store, store0, req, languageDoc, report,
               queueVars, messageVars >>

InitAttendance ==
  /\ db = [s \in Streams |-> EmptyBuckets]
  /\ HandlerIdle
  /\ ModelsIdle
  /\ RunsIdle
  /\ languageDoc = << >>
  /\ report = << >>
  /\ QueueIdle
  /\ MessagesIdle
  /\ attendance = [n \in AttendanceNames |-> {}]
  /\ baseAttendance = {}
  /\ marking = [r \in Runs |-> NewMark]
  /\ updateStatus = 0

\* mark-attendance, up to its write: the subject and the students are
\* looked up, the existing record is looked for unless forceOverwrite is
\* set, and studentsPresent is validated
MarkAttendance(r, date, subject, present, force) ==
  LET bucket == attendance[getAttendanceModel("BCA", 1, subject)]
      arrived == [NewMark EXCEPT !.date = date, !.subject = subject,
                                 !.studentsPresent = present,
                                 !.forceOverwrite = force]
      answered(status) ==
        marking' = [marking EXCEPT ![r] =
                      [arrived EXCEPT !.pc = "done", !.status = status]]
  IN  /\ marking[r].pc = "new"
      /\ IF subjectToUpperCase(subject) \notin SubjectNames
         THEN answered(404)
         ELSE IF ~force /\ Matching(bucket, newDate(date), subject) # {}
         THEN answered(409)
         ELSE IF present \ relevantStudentIDs # {}
         THEN answered(400)
         ELSE marking' = [marking EXCEPT ![r] =
                            [arrived EXCEPT !.pc = "write"]]
      /\ UNCHANGED << attendance, baseAttendance, updateStatus >>
      /\ AttendanceFrame

\* mark-attendance, its writes: the upsert of the attendance record and of
\* the BaseAttendance record
MarkWrite(r) ==
  LET q == marking[r]
      name == getAttendanceModel("BCA", 1, q.subject)
      bucket == attendance[name]
  IN  /\ q.pc = "write"
      /\ attendance' =
           [attendance EXCEPT ![name] =
              findOneAndUpdate(bucket, newDate(q.date), q.subject,
                               q.studentsPresent, "")]
      /\ baseAttendance' =
           findOneAndUpdate(baseAttendance, q.date, q.subject,
                            q.studentsPresent, "")
      /\ marking' =
           [marking EXCEPT ![r].pc = "done", ![r].status = 200,
              ![r].existed =
                 Matching(bucket, newDate(q.date), q.subject) # {}]
      /\ UNCHANGED updateStatus
      /\ AttendanceFrame

\* the attendanceMap of update-attendance: studentsPresent for some dates
AttendanceMaps ==
  UNION { [D -> PresentArgs] : D \in (SUBSET AttendanceDates) \ { {} } }

\* the upserts of update-attendance, one for each date of the map
RECURSIVE updatePromises(_, _, _, _)
updatePromises(bucket, subject, attendanceMap, dates) ==
  IF dates = {} THEN bucket
  ELSE LET dateStr == CHOOSE d \in dates : TRUE
       IN  updatePromises(
             findOneAndUpdate(bucket, newDate(dateStr),
                              subjectToUpperCase(subject),
                              attendanceMap[dateStr] \cap relevantStudentIDs,
                              "bulk_attendance_update"),
             subject, attendanceMap, dates \ {dateStr})

\* update-attendance: the transaction commits all its upserts
UpdateAttendance(subject, attendanceMap) ==
  LET name == getAttendanceModel("BCA", 1, subject)
  IN  /\ IF subjectToUpperCase(subject) \notin SubjectNames
         THEN /\ updateStatus' = 404
              /\ UNCHANGED attendance
         ELSE /\ updateStatus' = 200
              /\ attendance' =
                   [attendance EXCEPT ![name] =
                      updatePromises(attendance[name], subject,
                                     attendanceMap, DOMAIN attendanceMap)]
      /\ UNCHANGED << baseAttendance, marking >>
      /\ AttendanceFrame

NextAttendance ==
  \/ \E r \in Runs, date \in AttendanceDates, subject \in SubjectParams,
        present \in PresentArgs, force \in BOOLEAN :
       MarkAttendance(r, date, subject, present, force)
  \/ \E r \in Runs : MarkWrite(r)
  \/ \E subject \in SubjectParams, attendanceMap \in AttendanceMaps :
       UpdateAttendance(subject, attendanceMap)

SpecAttendance == InitAttendance /\ [][NextAttendance]_vars

\* ------------------------------------------------- absence messages
\* POST /send-absence-messages/:stream/sem:sem/:date for one (date, stream,
\* semester) whose semester has students and subjects.  A request is served
\* in three steps: the look at the message log, the sending, and the write
\* of the log; other requests may be served in between.

\* no log has been written for the day
NoLog == [ exists |-> FALSE, messagesSent |-> 0, sentBy |-> "" ]

\* a send request that has not arrived
NewSend ==
  [ pc |-> "new", forceResend |-> FALSE, delivered |-> {}, failed |-> {},
    status |-> 0, alreadySent |-> FALSE, overLog |-> FALSE ]

\* what the day's attendance gives: whether any subject has a record, and
\* the students with an absence and a parent's phone number
DayData ==
  [ subjectsWithAttendance : BOOLEAN, studentsToNotify : SUBSET StudentIDs ]

\* what the send route leaves alone
MessagesFrame ==
  UNCHANGED << db, pre, pc, stream, clock, session, view, idx, attempts,
               gradFailed, order, totalPromoted, totalGraduated,
               promotionDetails, response, lastError, collections,
               collectionName, store, store0, req, languageDoc, report,
               queueVars, attendanceVars, absentees >>

InitMessages ==
  /\ db = [s \in Streams |-> EmptyBuckets]
  /\ HandlerIdle
  /\ ModelsIdle
  /\ RunsIdle
  /\ languageDoc = << >>
  /\ report = << >>
  /\ QueueIdle
  /\ AttendanceIdle
  /\ messageLog = NoLog
  /\ absentees \in { d \in DayData :
                       ~d.subjectsWithAttendance => d.studentsToNotify = {} }
  /\ sending = [r \in Runs |-> NewSend]

\* the duplicate prevention check: without forceResend, a log with
\* messagesSent > 0 ends the request
SendCheck(r, forceResend) ==
  /\ sending[r].pc = "new"
  /\ sending' =
       [sending EXCEPT ![r] =
          IF ~forceResend /\ messageLog.exists /\ messageLog.messagesSent > 0
          THEN [NewSend EXCEPT !.pc = "done", !.status = 200,
                               !.alreadySent = TRUE]
          ELSE [NewSend EXCEPT !.pc = "send", !.forceResend = forceResend]]
  /\ UNCHANGED messageLog
  /\ MessagesFrame

\* MessageLog.findOneAndUpdate with upsert
logged(messagesSent, forceResend) ==
  [ exists |-> TRUE, messagesSent |-> messagesSent,
    sentBy |-> IF forceResend THEN "manual-force" ELSE "manual" ]

\* the attendance of the day is read and the messages go out: each parent
\* of studentsToNotify gets one, and the send succeeds or fails
SendMessages(r, delivered) ==
  LET q == sending[r]
  IN  /\ q.pc = "send"
      /\ delivered \subseteq absentees.studentsToNotify
      /\ IF ~absentees.subjectsWithAttendance
         THEN /\ delivered = {}
              /\ sending' = [sending EXCEPT ![r].pc = "done",
                                            ![r].status = 400]
              /\ UNCHANGED messageLog
         ELSE IF absentees.studentsToNotify = {}
         THEN /\ delivered = {}
              /\ sending' = [sending EXCEPT ![r].pc = "done",
                                            ![r].status = 200]
              /\ messageLog' = logged(0, q.forceResend)
         ELSE /\ sending' =
                   [sending EXCEPT
                      ![r].pc = "log",
                      ![r].delivered = delivered,
                      ![r].failed = absentees.studentsToNotify \ delivered,
                      ![r].overLog = /\ messageLog.exists
                                     /\ messageLog.messagesSent > 0]
              /\ UNCHANGED messageLog
      /\ MessagesFrame

\* the log of the request is written and the request is answered
SendLog(r) ==
  LET q == sending[r]
  IN  /\ q.pc = "log"
      /\ messageLog' = logged(Cardinality(q.delivered), q.forceResend)
      /\ sending' = [sending EXCEPT ![r].pc = "done", ![r].status = 200]
      /\ MessagesFrame

NextMessages ==
  \/ \E r \in Runs, forceResend \in BOOLEAN : SendCheck(r, forceResend)
  \/ \E r \in Runs, delivered \in SUBSET StudentIDs : SendMessages(r, delivered)
  \/ \E r \in Runs : SendLog(r)

SpecMessages == InitMessages /\ [][NextMessages]_vars

\* ------------------------------------------------------- claim vocabulary
Succeeded == pc = "idle" /\ response = "200"

PreB == BucketsOf(pre, stream)
PostB == BucketsOf(db, stream)

AllOf(b) == UNION { b[k] : k \in Sems }

NotDeactivated(r) == r.isActive # "false"

FullRange == semesterRange(stream) = 1..6

IsPrefix(h1, h2) == Len(h1) <= Len(h2) /\ SubSeq(h2, 1, Len(h1)) = h1

UniqueIDs(b) ==
  \A k1, k2 \in Sems : k1 # k2 => IdsOf(b[k1]) \cap IdsOf(b[k2]) = {}

\* the history entry of a hop fromSem -> fromSem + 1 made by the current run
HopEntry(fromSem, gen) ==
  [ fromSemester |-> fromSem, toSemester |-> fromSem + 1,
    migratedDate |-> clock, migrationBatch |-> clock, generation |-> gen ]

\* r2 is r1 after exactly one hop of the current run
OneHop(r1, r2) ==
  /\ r2.studentID = r1.studentID
  /\ r2.semester = r1.semester + 1
  /\ r2.migrationGeneration = r1.migrationGeneration + 1
  /\ r2.migrationHistory =
       Append(r1.migrationHistory,
              HopEntry(r1.semester, r1.migrationGeneration + 1))

Thm_C2 == (Succeeded /\ UniqueIDs(PreB)) => UniqueIDs(PostB)

Wit_C2 ==
  /\ Succeeded /\ UniqueIDs(PreB)
  /\ totalPromoted = 2 /\ attempts = 1
  /\ Cardinality(IdsOf(AllOf(PostB))) = 2

\* ------------------------------------------------------------------ C3
\* C3: every record a successful run wrote comes from the record with the
\* same studentID in the bucket below, and its migrationHistory is that
\* record's history, entry for entry, followed by exactly one new entry.
Thm_C3 ==
  Succeeded =>
    \A k \in Sems : \A r \in PostB[k] \ PreB[k] :
      /\ k > 1
      /\ \E q \in PreB[k - 1] :
           /\ q.studentID = r.studentID
           /\ Len(r.migrationHistory) = Len(q.migrationHistory) + 1
           /\ IsPrefix(q.migrationHistory, r.migrationHistory)

Wit_C3 ==
  /\ Succeeded
  /\ \E k \in Sems : \E r \in PostB[k] \ PreB[k] :
       Len(r.migrationHistory) = 2

\* ------------------------------------------------------------------ C4
\* C4: every stored record (committed or in the working copy) has
\* migrationGeneration = Len(migrationHistory); its hops are numbered 1, 2,
\* ..., each goes up one semester, they chain in the order they happened
\* and the last one ends at the record's semester.
WellFormedHistory(r) ==
  LET h == r.migrationHistory
  IN  /\ r.migrationGeneration = Len(h)
      /\ \A i \in 1..Len(h) :
           /\ h[i].generation = i
           /\ h[i].toSemester = h[i].fromSemester + 1
           /\ i < Len(h) =>
                /\ h[i + 1].fromSemester = h[i].toSemester
                /\ h[i].migratedDate < h[i + 1].migratedDate
      /\ Len(h) > 0 => h[Len(h)].toSemester = r.semester

Thm_C4 ==
  /\ \A s \in Streams : \A r \in AllOf(db[s]) : WellFormedHistory(r)
  /\ \A r \in AllOf(view) : WellFormedHistory(r)

Wit_C4 ==
  \E r \in AllOf(db["BCA"]) :
    /\ r.migrationGeneration = 2
    /\ Len(r.migrationHistory) = 2
    /\ r.migrationHistory[1].fromSemester = 4
    /\ r.migrationHistory[2].toSemester = 6
Orig_C6 ==
  (Succeeded /\ attempts = 1) =>
    \A k \in Sems : \A r \in PreB[k] \ PostB[k] :
      \/ /\ k <= 5
         /\ \E r2 \in PostB[k + 1] :
              /\ r2.studentID = r.studentID
              /\ IsPrefix(r.migrationHistory, r2.migrationHistory)
      \/ /\ k = 6
         /\ \E i \in 1..Len(promotionDetails) :
              /\ promotionDetails[i].action = "graduation"
              /\ r.studentID \in promotionDetails[i].students

\* ------------------------------------------------------------------ C7
\* the source buckets of the run's pairs
SourceSems == { promotionPairs(stream)[i].from :
                  i \in 1..Len(promotionPairs(stream)) }

\* deactivated records that shared a source bucket with a student that was
\* promoted: the pair's deleteMany({}) removes them
DroppedInactive ==
  { r \in AllOf(PreB) :
      /\ ~NotDeactivated(r)
      /\ r.semester \in SourceSems
      /\ \E q \in PreB[r.semester] : NotDeactivated(q) }

Descending(seq) ==
  \A i, j \in 1..Len(seq) : i < j => seq[i] > seq[j]

Thm_C10 ==
  /\ (clock > 0 /\ pc = "idle" /\ stream \notin DOMAIN STREAM_MAPPINGS)
       => response = "400"
  /\ response = "400" =>
       /\ stream \notin DOMAIN STREAM_MAPPINGS
       /\ pc = "idle"
       /\ session = "none"
       /\ attempts = 0
       /\ view = EmptyBuckets
       /\ totalPromoted = 0 /\ totalGraduated = 0
       /\ promotionDetails = << >>
       /\ db = pre

Wit_C10 ==
  /\ response = "400" /\ stream = "BSc"
  /\ clock = 2
  /\ AllOf(db["BCA"]) # {}
HasGraduationEntry ==
  \E i \in 1..Len(promotionDetails) : promotionDetails[i].action = "graduation"

\* C12: when the graduation step of a run fails, the run is not aborted:
\* every promotion pair is still executed, and the report of the committed
\* run counts graduation as zero effect (totalGraduated = 0, no graduation
\* entry).
Orig_C12 ==
  (Succeeded /\ gradFailed) =>
    /\ order = [i \in 1..Len(promotionPairs(stream)) |->
                  promotionPairs(stream)[i].from]
    /\ totalGraduated = 0
    /\ ~HasGraduationEntry
\* ----------------------------------------------------------------- C13
\* the records a run moved out of source bucket k, and the records it
\* removed from semester 6
MovedFrom(k) == PostB[k + 1] \ PreB[k + 1]

Graduated == PreB[6] \ PostB[6]

EntriesOfPair(k) ==
  { i \in 1..Len(promotionDetails) :
      /\ promotionDetails[i].action = "promotion"
      /\ promotionDetails[i].fromSemester = k }

EntriesOfGraduation ==
  { i \in 1..Len(promotionDetails) :
      promotionDetails[i].action = "graduation" }

\* C13: in every successful run, however many times the transaction body
\* was executed, totalPromoted is the number of records moved to a higher
\* semester, totalGraduated is the number of records removed from semester
\* 6, and promotionDetails has exactly one entry per non-empty step, which
\* lists exactly the students of that step.
Orig_C13 ==
  Succeeded =>
    /\ totalPromoted =
         Cardinality(UNION { MovedFrom(k) : k \in SourceSems })
    /\ totalGraduated = Cardinality(Graduated)
    /\ \A k \in SourceSems :
         /\ Cardinality(EntriesOfPair(k)) = IF MovedFrom(k) = {} THEN 0 ELSE 1
         /\ \A i \in EntriesOfPair(k) :
              promotionDetails[i].students = IdsOf(MovedFrom(k))
    /\ Cardinality(EntriesOfGraduation) = IF Graduated = {} THEN 0 ELSE 1
    /\ \A i \in EntriesOfGraduation :
         promotionDetails[i].students = IdsOf(Graduated)
\* ----------------------------------------------------------------- C17
\* C17: originalSemester never changes once set: every record a successful
\* run wrote carries the originalSemester of the record it was made from
\* when that record had one, and the source semester of the hop when it had
\* none; so a promoted record's originalSemester is the semester its first
\* recorded hop left.
Thm_C17 ==
  /\ Succeeded =>
       \A k \in Sems : \A r2 \in PostB[k] \ PreB[k] :
         /\ k > 1
         /\ \E r \in PreB[k - 1] :
              /\ r.studentID = r2.studentID
              /\ r2.originalSemester =
                   IF r.originalSemester # 0 THEN r.originalSemester
                   ELSE k - 1
  /\ \A s \in Streams : \A r \in AllOf(db[s]) :
       r.migrationGeneration > 0 =>
         r.originalSemester = r.migrationHistory[1].fromSemester

Wit_C17 ==
  /\ Succeeded /\ clock = 2
  /\ \E r \in PreB[4] : \E r2 \in PostB[5] \ PreB[5] :
       /\ OneHop(r, r2)
       /\ r.originalSemester = 3
       /\ r2.originalSemester = 3
       /\ r2.migrationHistory[1].fromSemester = 3
  /\ \E r \in PreB[2] : \E r2 \in PostB[3] \ PreB[3] :
       /\ OneHop(r, r2)
       /\ r.originalSemester = 1
       /\ r.migrationGeneration = 1
       /\ r2.originalSemester = 1
\* ----------------------------------------------------------------- C18
\* C18: in the working copy of a transaction, committed, in flight or
\* aborted by a failed insert or delete, a source bucket whose records
\* have been deleted has had its students inserted into the target bucket
\* before: no source bucket is emptied while the corresponding insert has
\* not happened or has failed.
Thm_C18 ==
  session # "none" =>
    LET pairs == promotionPairs(stream)
        before == PreB
    IN  \A i \in 1..Len(pairs) :
          LET k == pairs[i].from
          IN  (before[k] # {} /\ before[k] \cap view[k] = {}) =>
                \A r \in before[k] :
                  NotDeactivated(r) =>
                    \E r2 \in view[pairs[i].to] : OneHop(r, r2)

Wit_C18 ==
  /\ response = "500" /\ lastError = "delete" /\ stream = "BCA"
  /\ PreB[5] # {} /\ PreB[5] \cap view[5] = {} /\ view[6] # {}
  /\ promotionPairs(stream)[idx].from = 4
  /\ view[4] = PreB[4] /\ view[4] # {}
  /\ \E r \in PreB[4] : \E r2 \in view[5] : OneHop(r, r2)
\* ----------------------------------------------------------------- C19
\* C19: the students a successful run copied out of a source bucket are
\* exactly the students of that bucket whose isActive is true, absent or
\* null; no student whose isActive is false has a copy in the target.
Thm_C19 ==
  Succeeded =>
    \A k \in SourceSems :
      /\ IdsOf(PostB[k + 1] \ PreB[k + 1]) =
           IdsOf({ r \in PreB[k] : r.isActive \in {"true", "absent", "null"} })
      /\ \A r \in PreB[k] :
           r.isActive = "false" =>
             \A r2 \in PostB[k + 1] \ PreB[k + 1] :
               r2.studentID # r.studentID

Wit_C19 ==
  /\ Succeeded /\ stream = "BCA"
  /\ \E r \in PreB[4] : r.isActive = "null"
  /\ \E r \in PreB[4] : r.isActive = "false"
  /\ Cardinality(PostB[5] \ PreB[5]) = 1
  /\ PostB[4] = {}
\* ----------------------------------------------------------------- C20
\* all the records a run moved
AllMoved == UNION { MovedFrom(k) : k \in SourceSems }

LastEntry(r) == r.migrationHistory[Len(r.migrationHistory)]

\* C20: every record a successful run inserted for the pair (k, k + 1) has
\* semester k + 1, the migrationGeneration of the record it was made from
\* plus one, the batch id of the run, and a last history entry with
\* fromSemester k, toSemester k + 1, the new generation and the run's batch
\* id; all records moved by one run carry the same batch id and timestamp.
Thm_C20 ==
  Succeeded =>
    /\ \A k \in SourceSems : \A r2 \in MovedFrom(k) :
         /\ r2.semester = k + 1
         /\ \E r \in PreB[k] :
              /\ r.studentID = r2.studentID
              /\ r2.migrationGeneration = r.migrationGeneration + 1
         /\ r2.migrationBatch = clock
         /\ Len(r2.migrationHistory) > 0
         /\ LastEntry(r2).fromSemester = k
         /\ LastEntry(r2).toSemester = k + 1
         /\ LastEntry(r2).generation = r2.migrationGeneration
         /\ LastEntry(r2).migrationBatch = clock
    /\ \A r2, q2 \in AllMoved :
         /\ r2.migrationBatch = q2.migrationBatch
         /\ LastEntry(r2).migratedDate = LastEntry(q2).migratedDate

Wit_C20 ==
  /\ Succeeded /\ clock = 2 /\ attempts = 2
  /\ Cardinality(AllMoved) = 2
  /\ \E r2 \in AllMoved :
       /\ r2.migrationGeneration = 2
       /\ r2.migrationBatch = 2
       /\ r2.migrationHistory[1].migrationBatch = 1
       /\ LastEntry(r2).migrationBatch = 2
\* ----------------------------------------------------------------- C16
\* C16: the bucket name computed from (stream, semester, type) is
\* deterministic and injective over the six recognized streams, semesters
\* 1..8 and the types students and subjects: every name in use was computed
\* from such a triple and is the name of that triple, and two different
\* triples never have the same name.
Thm_C16 ==
  /\ \A e \in collections :
       /\ e.stream \in validStreams
       /\ e.semester \in 1..8
       /\ e.type \in {"students", "subjects"}
       /\ e.name = getCollectionName(e.stream, e.semester, e.type)
       /\ e.name # "Error"
  /\ \A e1, e2 \in collections : e1.name = e2.name => e1 = e2
  /\ collectionName \notin {"", "Error"} =>
       \E e \in collections : e.name = collectionName

Wit_C16 ==
  /\ collectionName = "bcomsectionb_sem1_students"
  /\ \E e \in collections : e.name = "bcom_sem1_students" /\ e.stream = "BCom"
  /\ \E e \in collections :
       e.name = "bcomsectionb_sem1_students" /\ e.stream = "BCom Section B"
\* ----------------------------------------------------------------- C14
Answered200 == { r \in Runs : req[r].response = "200" }

Arrived == { r \in Runs : req[r].pc # "new" }

InTransaction(r) == req[r].pc \in {"grad", "pair", "del"}

RunsOn(s) == { r \in Runs : req[r].stream = s }

NamesOf(s) == { BucketName(s, k) : k \in Sems }

\* C15: requests for different streams touch disjoint sets of buckets:
\* every document a request writes is in a bucket of its own stream, no
\* request of one stream makes a request of the other fail or re-execute,
\* and the buckets of each stream are at all times those of a serial
\* execution of the committed requests for that stream alone.
Thm_C15 ==
  /\ \A r \in Runs : \A key \in req[r].wset :
       key[1] \in NamesOf(req[r].stream)
  /\ \A s \in Streams :
       /\ ReadBuckets(store, s) \in
            { ReadBuckets(x, s) :
                x \in SerialFrom(store0, RunsOn(s) \cap Answered200) }
       /\ Cardinality(RunsOn(s)) = 1 =>
            \A r \in RunsOn(s) : req[r].attempts <= 1 /\ ~req[r].aborted
  /\ (\A r1, r2 \in Arrived : r1 # r2 => req[r1].stream # req[r2].stream) =>
       store \in SerialFrom(store0, Answered200)

Wit_C15 ==
  /\ \A r \in Runs : req[r].pc = "done" /\ req[r].response = "200"
  /\ req[1].stream = "BCA" /\ req[2].stream = "BCom Section B"
  /\ \E d \in store0[BucketName("BCA", 5)] :
       d \notin store[BucketName("BCA", 5)]
  /\ \E d \in store0[BucketName("BCom Section B", 5)] :
       d \notin store[BucketName("BCom Section B", 5)]
  /\ store[BucketName("BCA", 6)] # {}
  /\ store[BucketName("BCom Section B", 6)] # {}
\* ----------------------------------------------------------------- C21

\* C21: a student record with a languageSubject has the languageGroup that
\* combines its own stream, semester and languageSubject, the record
\* written by a promotion included.
Orig_C21 ==
  languageDoc.languageSubject # "" =>
    languageDoc.languageGroup =
      languageGroup(languageDoc.stream, languageDoc.semester,
                    languageDoc.languageSubject)

\* ----------------------------------------------------------------- C22

\* C22: for every recognized stream, semester 1..8 and type, the resolver
\* of the report routes returns the bucket name that the resolver of the
\* attendance and promotion routes returns.
Orig_C22 ==
  ( /\ report.stream \in validStreams
    /\ report.semester \in 1..8
    /\ report.type \in {"students", "subjects"} )
  => report.name = collectionName

\* ----------------------------------------------------------------- C23

\* the (stream, semester, subject) of a queue entry
Triple(c) == << c.stream, c.semester, c.subject >>

\* C23: the attendanceQueue never holds two entries with the same
\* (stream, semester, subject).
Orig_C23 ==
  \A i, j \in DOMAIN attendanceQueue :
    Triple(attendanceQueue[i]) = Triple(attendanceQueue[j]) => i = j

\* ----------------------------------------------------------------- C24

\* C24: the class ids within the attendanceQueue are pairwise distinct.
Orig_C24 ==
  \A i, j \in DOMAIN attendanceQueue :
    attendanceQueue[i].id = attendanceQueue[j].id => i = j

\* ----------------------------------------------------------------- C25

\* the positions of the attendanceQueue whose entry has the id
HasId(classId) ==
  { i \in DOMAIN attendanceQueue : attendanceQueue[i].id = classId }

\* the step is the answer to complete(classId) / remove(classId)
IsComplete(classId) ==
  queueResponse'.route = "complete" /\ queueResponse'.classId = classId

IsRemove(classId) ==
  queueResponse'.route = "remove" /\ queueResponse'.classId = classId

\* the sequence without its i-th element
Without(seq, i) == SubSeq(seq, 1, i - 1) \o SubSeq(seq, i + 1, Len(seq))

\* C25: complete(classId) for an id present in the queue removes exactly
\* one entry with that id from the attendanceQueue and appends exactly that
\* entry to completedToday; the other entries of both lists keep their
\* values and their order, and the two lengths together are unchanged.
Thm_C25 ==
  [][ \A classId \in ClassIdArgs :
        (IsComplete(classId) /\ HasId(classId) # {}) =>
          /\ queueResponse'.status = 200
          /\ \E i \in HasId(classId) :
               /\ attendanceQueue' = Without(attendanceQueue, i)
               /\ completedToday' = Append(completedToday, attendanceQueue[i])
          /\ Len(attendanceQueue') + Len(completedToday') =
               Len(attendanceQueue) + Len(completedToday) ]_vars

\* a class was completed while another one stayed queued
Wit_C25 ==
  /\ queueResponse.route = "complete"
  /\ queueResponse.status = 200
  /\ attendanceQueue # << >>
  /\ completedToday # << >>
  /\ completedToday[Len(completedToday)].id = queueResponse.classId

\* ----------------------------------------------------------------- C26

Orig_C27 ==
  \A i \in DOMAIN attendanceQueue :
    attendanceQueue[i].stream = "BCom Section B" =>
      attendanceQueue[i].semester \in {"5", "6"}

\* ----------------------------------------------------------------- C28

\* C28: a mark-attendance request without forceOverwrite never writes over
\* an attendance record that exists for its (date, subject).
Orig_C28 ==
  \A r \in Runs :
    (marking[r].pc = "done" /\ ~marking[r].forceOverwrite)
      => ~marking[r].existed

\* ----------------------------------------------------------------- C29

\* C29: the attendance collection of a subject holds at most one record
\* for a date.
Orig_C29 ==
  \A n \in DOMAIN attendance :
    \A a, b \in attendance[n] : a.date = b.date => a = b

\* ----------------------------------------------------------------- C30

\* the request sent at least one message to a parent
HasSent(r) ==
  sending[r].pc \in {"log", "done"} /\ sending[r].delivered # {}

\* C30: a request without forceResend sends no message once a log with
\* messagesSent > 0 exists, and two requests without forceResend that are
\* served at the same time do not both send.
Orig_C30 ==
  /\ \A r \in Runs :
       (HasSent(r) /\ ~sending[r].forceResend) => ~sending[r].overLog
  /\ ~ \A r \in Runs :
         /\ sending[r].pc = "log"
         /\ HasSent(r)
         /\ ~sending[r].forceResend

====
